---------------------------- MODULE Spec2Model ----------------------------
(***************************************************************************)
(* A model of quick_reduction.py (Remedy): the calibration resolver        *)
(* get_cal_path, the detector preprocessor base_reduction / orient_image,  *)
(* the fiber extractor get_spectra, the dither aggregator reduce_ifuslot   *)
(* with the module-level slot selection, and the module-level background   *)
(* flattening.                                                             *)
(*                                                                         *)
(* The source is Python 2: `image.shape[1] / 1064`, `T / binsize` and      *)
(* `image.shape[0] / 112` are integer (floor) divisions whose results are  *)
(* used as slice bounds and section counts.                                *)
(*                                                                         *)
(* Numbers.  A float is modelled as an exact rational <<n, d>> with d > 0  *)
(* in lowest terms; a non-finite float (nan, inf) is the marker <<0, 0>>.  *)
(***************************************************************************)
EXTENDS Integers, Sequences, FiniteSets, TLC

VARIABLES
    \* get_cal_path
    cal_pc, date, datec, daten, pathname, cnt, cal_log, twiDates,
    \* base_reduction
    b_pc, hdu, image, overscan_length, gain, rdnoise, amp, ampname, b_a, b_E2,
    \* orient_image applied repeatedly to one array
    o_n, o_orig, o_image, o_amp, o_ampname,
    \* module level and reduce_ifuslot
    m_pc, args, h5table, twiFiles, sciFiles, ifuloop, r_i, r_j, r_p, r_t, r_s,
    masterflt, masterbias, filenames, r_ret,
    \* module-level background flattening
    f_pc, f_image, back, avg, chunks, newimage,
    \* get_spectra
    s_pc, array_sci, array_flt, array_trace, wave, fiber, twi_spectrum,
    sci_spectrum, s_ret

cal_vars == <<cal_pc, date, datec, daten, pathname, cnt, cal_log, twiDates>>
base_vars == <<b_pc, hdu, image, overscan_length, gain, rdnoise, amp, ampname,
               b_a, b_E2>>

orient_vars == <<o_n, o_orig, o_image, o_amp, o_ampname>>

spectra_vars == <<s_pc, array_sci, array_flt, array_trace, wave, fiber,
                  twi_spectrum, sci_spectrum, s_ret>>

reduce_vars == <<m_pc, args, h5table, twiFiles, sciFiles, ifuloop, r_i, r_j, r_p, r_t, r_s,
                 masterflt, masterbias, filenames, r_ret>>

flat_vars == <<f_pc, f_image, back, avg, chunks, newimage>>

vars == <<cal_vars, base_vars, orient_vars, spectra_vars, reduce_vars, flat_vars>>

not_cal == <<base_vars, orient_vars, spectra_vars, reduce_vars, flat_vars>>
not_base == <<cal_vars, orient_vars, spectra_vars, reduce_vars, flat_vars>>
not_orient == <<cal_vars, base_vars, spectra_vars, reduce_vars, flat_vars>>
not_spectra == <<cal_vars, base_vars, orient_vars, reduce_vars, flat_vars>>
not_reduce == <<cal_vars, base_vars, orient_vars, spectra_vars, flat_vars>>
not_flat == <<cal_vars, base_vars, orient_vars, spectra_vars, reduce_vars>>

-----------------------------------------------------------------------------
(* Python values *)

\* None where a string is expected, and where a number or an array is expected
None == "None"
NoVal == <<>>

Min(a, b) == IF a < b THEN a ELSE b
Max(a, b) == IF a < b THEN b ELSE a
Abs(a) == IF a < 0 THEN -a ELSE a

RECURSIVE Gcd(_, _)
Gcd(a, b) == IF b = 0 THEN a ELSE Gcd(b, a % b)

\* a float: n/d in lowest terms, d > 0
Rat(n, d) ==
    LET g == Gcd(Abs(n), Abs(d))
        s == IF d < 0 THEN -1 ELSE 1
    IN  IF d = 0 THEN <<0, 0>> ELSE <<s * (n \div g), s * (d \div g)>>

NaN == <<0, 0>>
R(n) == <<n, 1>>
IsFinite(a) == a[2] # 0

\* the sum over the least common denominator
RAdd(a, b) == IF IsFinite(a) /\ IsFinite(b)
              THEN LET g == Gcd(a[2], b[2])
                   IN  Rat(a[1] * (b[2] \div g) + b[1] * (a[2] \div g),
                           (a[2] \div g) * b[2])
              ELSE NaN
RNeg(a) == IF IsFinite(a) THEN <<-a[1], a[2]>> ELSE NaN
RSub(a, b) == RAdd(a, RNeg(b))
\* the product, common factors cancelled crosswise first
RMul(a, b) == IF IsFinite(a) /\ IsFinite(b)
              THEN LET g == Max(Gcd(Abs(a[1]), b[2]), 1)
                       h == Max(Gcd(Abs(b[1]), a[2]), 1)
                   IN  Rat((a[1] \div g) * (b[1] \div h), (a[2] \div h) * (b[2] \div g))
              ELSE NaN
\* float division: x / 0 is inf or nan, both non-finite
RDiv(a, b) == IF IsFinite(a) /\ IsFinite(b) /\ b[1] # 0
              THEN RMul(a, Rat(b[2], b[1])) ELSE NaN
\* comparisons with a non-finite operand are modelled as False (nan)
RLt(a, b) == IsFinite(a) /\ IsFinite(b) /\ a[1] * b[2] < b[1] * a[2]
RLe(a, b) == IsFinite(a) /\ IsFinite(b) /\ a[1] * b[2] <= b[1] * a[2]
RFloor(a) == a[1] \div a[2]
RCeil(a) == -((-a[1]) \div a[2])

-----------------------------------------------------------------------------
(* Dates: the string 'YYYYMMDD' is the number YYYYMMDD *)

\* int(daten[:4]), int(daten[4:6]), int(daten[6:])
Year(s) == s \div 10000
Month(s) == (s \div 100) % 100
Day(s) == s % 100
\* '%04d%02d%02d' % (year, month, day)
FormatDate(y, m, d) == y * 10000 + m * 100 + d

IsLeap(y) == (y % 4 = 0 /\ y % 100 # 0) \/ y % 400 = 0
DaysInMonth(y, m) ==
    IF m = 2 THEN (IF IsLeap(y) THEN 29 ELSE 28)
    ELSE IF m \in {4, 6, 9, 11} THEN 30 ELSE 31

\* datetime(y, m, d) - timedelta(days=1), formatted back
PrevDay(s) ==
    LET y == Year(s)  m == Month(s)  d == Day(s)
    IN  IF d > 1 THEN FormatDate(y, m, d - 1)
        ELSE IF m > 1 THEN FormatDate(y, m - 1, DaysInMonth(y, m - 1))
        ELSE FormatDate(y - 1, 12, 31)

-----------------------------------------------------------------------------
(* Paths.  A path template is the record of the components op.join puts    *)
(* together; the date is the one component str.replace can touch.          *)

build_path(rootdir, dt, obs, ifuslot, am, base) ==
    [rootdir |-> rootdir, date |-> dt, obs |-> obs,
     ifuslot |-> ifuslot, amp |-> am, base |-> base]

\* pathname.replace(old, new): every occurrence of `old` becomes `new`
StrReplace(path, old, new) ==
    [path EXCEPT !.date = IF @ = old THEN new ELSE @]

\* len(glob.glob(pathname)) for a twilight template: the files of `dates`
GlobCount(path, dates) == IF path.date \in dates THEN 1 ELSE 0

-----------------------------------------------------------------------------
(* numpy arrays: a 2-D array is a sequence of rows, a row a sequence *)

NRows(m) == Len(m)
NCols(m) == IF Len(m) = 0 THEN 0 ELSE Len(m[1])

\* np.array(data, dtype=float)
ToFloat(m) == [r \in 1 .. Len(m) |-> [c \in 1 .. Len(m[r]) |-> R(m[r][c])]]
\* m - v, m * v, m / v for a scalar v
SubScalar(m, v) == [r \in 1 .. Len(m) |-> [c \in 1 .. Len(m[r]) |-> RSub(m[r][c], v)]]
MulScalar(m, v) == [r \in 1 .. Len(m) |-> [c \in 1 .. Len(m[r]) |-> RMul(m[r][c], v)]]
DivScalar(m, v) == [r \in 1 .. Len(m) |-> [c \in 1 .. Len(m[r]) |-> RDiv(m[r][c], v)]]

\* a Python slice bound i on an axis of length n, as an offset in 0 .. n
PyBound(n, i) == IF i < 0 THEN Max(n + i, 0) ELSE Min(i, n)

\* m[:, start:]
ColsFrom(m, start) ==
    [r \in 1 .. Len(m) |-> SubSeq(m[r], PyBound(Len(m[r]), start) + 1, Len(m[r]))]

\* m[:, :stop]
ColsUpTo(m, stop) ==
    [r \in 1 .. Len(m) |-> SubSeq(m[r], 1, PyBound(Len(m[r]), stop))]

\* m[::-1, ::-1]
FlipBoth(m) ==
    [r \in 1 .. Len(m) |->
        [c \in 1 .. Len(m[r]) |-> m[Len(m) + 1 - r][Len(m[r]) + 1 - c]]]

\* m[:, ::-1]
FlipColumns(m) ==
    [r \in 1 .. Len(m) |-> [c \in 1 .. Len(m[r]) |-> m[r][Len(m[r]) + 1 - c]]]

Values(m) == UNION {{m[r][c] : c \in 1 .. Len(m[r])} : r \in 1 .. Len(m)}

-----------------------------------------------------------------------------
(* orient_image *)

OrientFlipAmps == {"LU", "RL"}
OrientMirrorNames == {"LR", "UL"}

\* image[:] = image[:, ::-1] copied column by column over itself, each read
\* seeing the columns already written
OrientMirrorAliased(img) ==
    [r \in 1 .. Len(img) |->
        [c \in 1 .. Len(img[r]) |->
            IF 2 * c <= Len(img[r]) + 1 THEN img[r][Len(img[r]) + 1 - c] ELSE img[r][c]]]

\* image[:] = image[:, ::-1]
OrientMirror(img) == FlipColumns(img)

orient_image(img, am, name) ==
    LET i1 == IF am = "LU" THEN FlipBoth(img) ELSE img
        i2 == IF am = "RL" THEN FlipBoth(i1) ELSE i1
    IN  IF name # None /\ (name = "LR" \/ name = "UL") THEN OrientMirror(i2) ELSE i2

MaxORows == 2
MaxOCols == 2
OPixels == {0, 1}
Amps == {"LL", "LU", "RL", "RU"}
OAmpNames == {None, "LR", "UL", "RU"}

OrientInit ==
    /\ \E nr \in 1 .. MaxORows, nc \in 1 .. MaxOCols :
          o_orig \in [1 .. nr -> [1 .. nc -> OPixels]]
    /\ o_image = o_orig
    /\ o_amp \in Amps
    /\ o_ampname \in OAmpNames
    /\ o_n = 0

MaxApply == 2

\* image = orient_image(image, amp, ampname)
OrientApply ==
    /\ o_n < MaxApply
    /\ o_image' = orient_image(o_image, o_amp, o_ampname)
    /\ o_n' = o_n + 1
    /\ UNCHANGED <<o_orig, o_amp, o_ampname>>
    /\ UNCHANGED not_orient

OrientNext == OrientApply

-----------------------------------------------------------------------------
(* base_reduction *)

AmpColumns == 1064
OverscanPerAmp == 32
DefaultGain == Rat(85, 100)
DefaultRdnoise == R(3)

MaxWidth == 2129
RawRows == 2

\* the widths around the multiples of AmpColumns, and the narrowest frames
Widths == {w \in 1 .. MaxWidth : w <= 3 \/ w % AmpColumns \in {0, 1, AmpColumns - 1}}

\* the pixels of a raw exposure: a bias level with a small asymmetric pattern
RawData(nr, w, seed) ==
    [r \in 1 .. nr |-> [c \in 1 .. w |-> 10 + ((r + seed * c) % 2)]]

\* str.replace(' ', '') on a header string (a sequence of characters)
StripSpaces(s) == SelectSeq(s, LAMBDA ch : ch # " ")
Concat2(s, t) == IF Len(s \o t) = 2 THEN (s \o t)[1] \o (s \o t)[2] ELSE "??"

GainValues == {NoVal, R(-1), R(0), Rat(1, 2), R(2)}
RdnoiseValues == {NoVal, R(0), R(-2), R(4)}
CcdPosValues == {<<"L">>, <<"R", " ">>}
CcdHalfValues == {<<"L">>, <<" ", "U">>}
AmpNameValues == {None, "LR", "UL", "RU"}

Headers == [GAIN : GainValues, RDNOISE : RdnoiseValues, CCDPOS : CcdPosValues,
            CCDHALF : CcdHalfValues, AMPNAME : AmpNameValues]
WideHeaders == {h \in Headers : /\ h.GAIN \in {NoVal, R(0), R(2)}
                                /\ h.RDNOISE = R(4)
                                /\ h.CCDPOS = <<"L">>
                                /\ h.AMPNAME \in {None, "LR"}}

\* overscan_length = 32 * (image.shape[1] / 1064)
OverscanLength(w) == OverscanPerAmp * (w \div AmpColumns)

\* image[:, :-overscan_length]
TrimOverscan(img, L) == ColsUpTo(img, -L)

\* biweight_location (astropy) of the overscan pixels: a robust location
\* estimate, which lies among the pixel values; of no pixels it is nan
BiweightLocations(px) == IF px = {} THEN {NaN} ELSE px

\* np.where(v > 0., v, default)
PositiveOr(v, default) == IF RLt(R(0), v) THEN v ELSE default

\* E ** 2 for E = np.sqrt(rdnoise**2 + np.where(a > 0., a, 0.))
ErrorSquared(a, rn) ==
    [r \in 1 .. Len(a) |-> [c \in 1 .. Len(a[r]) |->
        RAdd(RMul(rn, rn), PositiveOr(a[r][c], R(0)))]]

BaseInit ==
    /\ b_pc = "open"
    /\ \E w \in Widths, seed \in {1} :
         \E h \in (IF w <= 3 THEN Headers ELSE WideHeaders) :
            hdu = [data |-> RawData(RawRows, w, seed), header |-> h]
    /\ image = <<>>
    /\ overscan_length = 0
    /\ gain = NoVal
    /\ rdnoise = NoVal
    /\ amp = None
    /\ ampname = None
    /\ b_a = NoVal
    /\ b_E2 = NoVal

\* lines 102-106: float image, overscan level, subtraction
BaseOverscan ==
    /\ b_pc = "open"
    /\ LET img == ToFloat(hdu.data)
           L == OverscanLength(NCols(img))
       IN  /\ overscan_length' = L
           /\ \E O \in BiweightLocations(Values(ColsFrom(img, -(L - 2)))) :
                 image' = SubScalar(img, O)
    /\ b_pc' = "trim"
    /\ UNCHANGED <<hdu, gain, rdnoise, amp, ampname, b_a, b_E2>>
    /\ UNCHANGED not_base

\* line 108
BaseTrim ==
    /\ b_pc = "trim"
    /\ image' = TrimOverscan(image, overscan_length)
    /\ b_pc' = "header"
    /\ UNCHANGED <<hdu, overscan_length, gain, rdnoise, amp, ampname, b_a, b_E2>>
    /\ UNCHANGED not_base

\* lines 109-118: a[0].header['GAIN'] of a missing key raises KeyError
HeaderGain(h) == h.GAIN
HeaderRdnoise(h) == h.RDNOISE

BaseHeader ==
    /\ b_pc = "header"
    /\ IF HeaderGain(hdu.header) = NoVal \/ HeaderRdnoise(hdu.header) = NoVal
       THEN /\ b_pc' = "KeyError"
            /\ gain' = IF HeaderGain(hdu.header) = NoVal THEN NoVal
                       ELSE PositiveOr(HeaderGain(hdu.header), DefaultGain)
            /\ UNCHANGED <<rdnoise, amp, ampname>>
       ELSE /\ gain' = PositiveOr(HeaderGain(hdu.header), DefaultGain)
            /\ rdnoise' = PositiveOr(HeaderRdnoise(hdu.header), DefaultRdnoise)
            /\ amp' = Concat2(StripSpaces(hdu.header.CCDPOS),
                              StripSpaces(hdu.header.CCDHALF))
            /\ ampname' = hdu.header.AMPNAME
            /\ b_pc' = "orient"
    /\ UNCHANGED <<hdu, image, overscan_length, b_a, b_E2>>
    /\ UNCHANGED not_base

\* lines 120-124; b_E2 is E squared (E = sqrt(b_E2))
BaseOrient ==
    /\ b_pc = "orient"
    /\ LET a == MulScalar(orient_image(image, amp, ampname), gain)
       IN  /\ image' = orient_image(image, amp, ampname)
           /\ b_a' = a
           /\ b_E2' = ErrorSquared(a, rdnoise)
    /\ b_pc' = "done"
    /\ UNCHANGED <<hdu, overscan_length, gain, rdnoise, amp, ampname>>
    /\ UNCHANGED not_base

BaseNext == BaseOverscan \/ BaseTrim \/ BaseHeader \/ BaseOrient

-----------------------------------------------------------------------------
(* get_spectra *)

\* def_wave = np.arange(3470., 5542., 2.), cut to its first NWave points
WaveStart == 3470
WaveStep == 2
NWave == 3
def_wave == [i \in 1 .. NWave |-> R(WaveStart + WaveStep * (i - 1))]

Zeros(n, m) == [r \in 1 .. n |-> [c \in 1 .. m |-> R(0)]]

\* np.interp(x, xp, fp, left=0.0, right=0.0), xp increasing
Interp(x, xp, fp) ==
    LET n == Len(xp)
    IN  IF RLt(x, xp[1]) \/ RLt(xp[n], x) THEN R(0)
        ELSE IF x = xp[n] THEN fp[n]
        ELSE LET j == CHOOSE k \in 1 .. n - 1 : RLe(xp[k], x) /\ RLt(x, xp[k + 1])
                 slope == RDiv(RSub(fp[j + 1], fp[j]), RSub(xp[j + 1], xp[j]))
             IN  RAdd(RMul(slope, RSub(x, xp[j])), fp[j])

InterpAll(xs, xp, fp) == [i \in 1 .. Len(xs) |-> Interp(xs[i], xp, fp)]

\* arr[i, x] for a Python row index i (negative: from the end) and column x
ValidIndex(arr, i) == -NRows(arr) <= i /\ i < NRows(arr)
At(arr, i, x) == arr[(IF i < 0 THEN i + NRows(arr) ELSE i) + 1][x + 1]

SeqMin(q) == CHOOSE v \in {q[i] : i \in 1 .. Len(q)} :
                \A i \in 1 .. Len(q) : RLe(v, q[i])
CeilMax(q) == CHOOSE v \in {RCeil(q[i]) : i \in 1 .. Len(q)} :
                \A i \in 1 .. Len(q) : RCeil(q[i]) <= v

\* lines 166-169 with the lower-bound test left out
TraceOutsideUpperOnly(tr, N) == CeilMax(tr) >= N

\* lines 166-169: the two `continue` tests
TraceOutside(tr, N) == RLt(SeqMin(tr), R(0)) \/ CeilMax(tr) >= N

\* lines 170-172
TwiAlongTrace(flt, tr) ==
    [c \in 1 .. Len(tr) |->
        RAdd(RDiv(At(flt, RFloor(tr[c]), c - 1), R(2)),
             RDiv(At(flt, RCeil(tr[c]), c - 1), R(2)))]

\* lines 175-176
SciAlongTrace(sci, flt, tr) ==
    [c \in 1 .. Len(tr) |->
        RAdd(RDiv(At(sci, RFloor(tr[c]), c - 1), At(flt, RFloor(tr[c]), c - 1)),
             RDiv(At(sci, RCeil(tr[c]), c - 1), At(flt, RCeil(tr[c]), c - 1)))]

IndicesValid(arr, tr) ==
    \A c \in 1 .. Len(tr) : ValidIndex(arr, RFloor(tr[c])) /\ ValidIndex(arr, RCeil(tr[c]))

\* arr[~np.isfinite(arr)] = 0.0
ZeroNonFinite(arr) ==
    [r \in 1 .. Len(arr) |-> [c \in 1 .. Len(arr[r]) |->
        IF IsFinite(arr[r][c]) THEN arr[r][c] ELSE R(0)]]

SRows == 2
SCols == 2
SFibers == 2

TraceSlopes == {R(0), Rat(1, 2)}
\* straight traces starting at a half-integer row from -1/2 to the row count
TraceLines(nrows, ncols) ==
    {[c \in 1 .. ncols |-> RAdd(Rat(t, 2), RMul(sl, R(c - 1)))] :
        t \in -1 .. 2 * nrows, sl \in TraceSlopes}

FlatFrames(nrows, ncols) ==
    {[r \in 1 .. nrows |-> [c \in 1 .. ncols |-> R(2 * r + c)]],
     [r \in 1 .. nrows |-> [c \in 1 .. ncols |-> IF r = 1 /\ c = 1 THEN R(0) ELSE R(2)]]}
SciFrames(nrows, ncols) ==
    {[r \in 1 .. nrows |-> [c \in 1 .. ncols |->
        IF r = 1 /\ c = 1 THEN R(0) ELSE R(3 * r + 2 * c)]]}
\* wavelength solutions: increasing along the columns, shifted per fiber
WaveTables(nfib, ncols) ==
    {[f \in 1 .. nfib |-> [c \in 1 .. ncols |-> R(w0 + f + 3 * (c - 1))]] :
        w0 \in {WaveStart - 2, WaveStart}}

SpectraInit ==
    /\ array_sci \in SciFrames(SRows, SCols)
    /\ array_flt \in FlatFrames(SRows, SCols)
    /\ array_trace \in [1 .. SFibers -> TraceLines(SRows, SCols)]
    /\ wave \in WaveTables(SFibers, SCols)
    /\ sci_spectrum = Zeros(SFibers, NWave)
    /\ twi_spectrum = Zeros(SFibers, NWave)
    /\ fiber = 0
    /\ s_ret = NoVal
    /\ s_pc = "loop"

\* one pass of `for fiber in np.arange(array_trace.shape[0])` that continues
SpectraSkip ==
    /\ s_pc = "loop"
    /\ fiber < NRows(array_trace)
    /\ TraceOutside(array_trace[fiber + 1], NRows(array_flt))
    /\ fiber' = fiber + 1
    /\ UNCHANGED <<s_pc, array_sci, array_flt, array_trace, wave, twi_spectrum,
                   sci_spectrum, s_ret>>
    /\ UNCHANGED not_spectra

\* one pass that extracts the fiber (lines 170-178)
SpectraExtract ==
    /\ s_pc = "loop"
    /\ fiber < NRows(array_trace)
    /\ ~TraceOutside(array_trace[fiber + 1], NRows(array_flt))
    /\ LET tr == array_trace[fiber + 1]
       IN  IF IndicesValid(array_flt, tr) /\ IndicesValid(array_sci, tr)
           THEN /\ twi_spectrum' = [twi_spectrum EXCEPT ![fiber + 1] =
                       InterpAll(def_wave, wave[fiber + 1], TwiAlongTrace(array_flt, tr))]
                /\ sci_spectrum' = [sci_spectrum EXCEPT ![fiber + 1] =
                       InterpAll(def_wave, wave[fiber + 1],
                                 SciAlongTrace(array_sci, array_flt, tr))]
                /\ fiber' = fiber + 1
                /\ s_pc' = s_pc
           ELSE /\ s_pc' = "IndexError"
                /\ UNCHANGED <<twi_spectrum, sci_spectrum, fiber>>
    /\ UNCHANGED <<array_sci, array_flt, array_trace, wave, s_ret>>
    /\ UNCHANGED not_spectra

\* lines 179-181
SpectraReturn ==
    /\ s_pc = "loop"
    /\ fiber = NRows(array_trace)
    /\ twi_spectrum' = ZeroNonFinite(twi_spectrum)
    /\ sci_spectrum' = ZeroNonFinite(sci_spectrum)
    /\ s_ret' = <<ZeroNonFinite(twi_spectrum),
                  DivScalar(ZeroNonFinite(sci_spectrum), R(2))>>
    /\ s_pc' = "done"
    /\ UNCHANGED <<array_sci, array_flt, array_trace, wave, fiber>>
    /\ UNCHANGED not_spectra

SpectraNext == SpectraSkip \/ SpectraExtract \/ SpectraReturn

-----------------------------------------------------------------------------
(* get_cal_path *)

MaxBack == 33

StartDates == {20181108, 20190101, 20200301, 20190305}

RECURSIVE DaysBefore(_, _)
DaysBefore(d, k) == IF k = 0 THEN d ELSE DaysBefore(PrevDay(d), k - 1)

CalLimit == 30

\* one pass of the while body; st = [pathname, daten, cnt, log, pc]
CalReplace(path, old, new) == StrReplace(path, old, new)

CalExhausted(c) == c > CalLimit

CalBody(st, dc) ==
    LET dn == PrevDay(st.daten)
        pn == CalReplace(st.pathname, dc, dn)
        c  == st.cnt + 1
    IN  [pathname |-> pn, daten |-> dn, cnt |-> c,
         log |-> IF CalExhausted(c) THEN Append(st.log, "Could not find cal within 30 days.")
                 ELSE st.log,
         pc |-> IF CalExhausted(c) THEN "done" ELSE "loop"]

CalInit ==
    /\ date \in StartDates
    /\ datec = date
    /\ daten = date
    /\ cnt = 0
    /\ cal_log = <<>>
    /\ pathname = build_path("/work/03946/hetdex/maverick", date, "*", "047", "LL", "twi")
    /\ \E offs \in {{}} \cup {{a, b} : a, b \in 0 .. MaxBack} :
          twiDates = {DaysBefore(date, k) : k \in offs}
    /\ cal_pc = "loop"

\* while len(glob.glob(pathname)) == 0: <body>
CalStep ==
    /\ cal_pc = "loop"
    /\ GlobCount(pathname, twiDates) = 0
    /\ LET st == CalBody([pathname |-> pathname, daten |-> daten, cnt |-> cnt,
                          log |-> cal_log, pc |-> cal_pc], datec)
       IN  /\ pathname' = st.pathname
           /\ daten' = st.daten
           /\ cnt' = st.cnt
           /\ cal_log' = st.log
           /\ cal_pc' = st.pc
    /\ UNCHANGED <<date, datec, twiDates>>
    /\ UNCHANGED not_cal

\* the while condition fails: return pathname, daten
CalReturn ==
    /\ cal_pc = "loop"
    /\ GlobCount(pathname, twiDates) # 0
    /\ cal_pc' = "done"
    /\ UNCHANGED <<date, datec, daten, pathname, cnt, cal_log, twiDates>>
    /\ UNCHANGED not_cal

CalNext == CalStep \/ CalReturn


-----------------------------------------------------------------------------
(* get_cal_path and get_spectra as functions, for their callers *)

RECURSIVE CalLoop(_, _, _)
CalLoop(st, dc, dates) ==
    IF st.pc = "done" \/ GlobCount(st.pathname, dates) # 0 THEN st
    ELSE CalLoop(CalBody(st, dc), dc, dates)

\* get_cal_path(pathname, date) with the files of `dates` on disk
get_cal_path(path, dt, dates) ==
    LET st == CalLoop([pathname |-> path, daten |-> dt, cnt |-> 0, log |-> <<>>,
                       pc |-> "loop"], dt, dates)
    IN  <<st.pathname, st.daten>>

\* get_spectra(array_sci, array_flt, array_trace, wave, def_wave)
get_spectra(sci, flt, trace, wv) ==
    LET twi == [f \in 1 .. NRows(trace) |->
                  IF TraceOutside(trace[f], NRows(flt)) THEN Zeros(1, NWave)[1]
                  ELSE InterpAll(def_wave, wv[f], TwiAlongTrace(flt, trace[f]))]
        sp  == [f \in 1 .. NRows(trace) |->
                  IF TraceOutside(trace[f], NRows(flt)) THEN Zeros(1, NWave)[1]
                  ELSE InterpAll(def_wave, wv[f], SciAlongTrace(sci, flt, trace[f]))]
    IN  <<ZeroNonFinite(twi), DivScalar(ZeroNonFinite(sp), R(2))>>

-----------------------------------------------------------------------------
(* get_mastertwi *)

SeqValues(q) == {q[i] : i \in 1 .. Len(q)}

\* the k-th smallest (k from 1) element of a sequence of finite numbers
KthSmallest(q, k) ==
    CHOOSE v \in SeqValues(q) :
        /\ Cardinality({i \in 1 .. Len(q) : RLt(q[i], v)}) < k
        /\ Cardinality({i \in 1 .. Len(q) : RLe(q[i], v)}) >= k

\* np.median of a non-empty sequence; nan when an element is not finite
Median(q) ==
    LET n == Len(q)
    IN  IF \E i \in 1 .. n : ~IsFinite(q[i]) THEN NaN
        ELSE IF n % 2 = 1 THEN KthSmallest(q, (n + 1) \div 2)
        ELSE RDiv(RAdd(KthSmallest(q, n \div 2), KthSmallest(q, n \div 2 + 1)), R(2))

RECURSIVE Flatten(_)
Flatten(m) == IF Len(m) = 0 THEN <<>> ELSE m[1] \o Flatten(Tail(m))

\* get_mastertwi for the frames base_reduction returns for the globbed files
get_mastertwi(frames, mbias) ==
    LET twi_array == [k \in 1 .. Len(frames) |-> SubScalar(frames[k], mbias)]
        norm == [k \in 1 .. Len(frames) |-> Median(Flatten(twi_array[k]))]
    IN  [r \in 1 .. NRows(twi_array[1]) |-> [c \in 1 .. NCols(twi_array[1]) |->
            RMul(Median([k \in 1 .. Len(frames) |-> RDiv(twi_array[k][r][c], norm[k])]),
                 Median(norm))]]

-----------------------------------------------------------------------------
(* Module level (lines 255-262) and reduce_ifuslot *)

\* dither_pattern with a fourth entry
dither_pattern_four ==
    <<<<R(0), R(0)>>, <<Rat(127, 100), Rat(-73, 100)>>, <<Rat(127, 100), Rat(73, 100)>>,
      <<R(0), R(0)>>>>

dither_pattern ==
    <<<<R(0), R(0)>>, <<Rat(127, 100), Rat(-73, 100)>>, <<Rat(127, 100), Rat(73, 100)>>>>

\* amppos - dither_pattern[j]
SubOffset(amppos, off) ==
    [f \in 1 .. Len(amppos) |-> <<RSub(amppos[f][1], off[1]), RSub(amppos[f][2], off[2])>>]

\* amppos + dither_pattern[j]
AddOffset(amppos, off) ==
    [f \in 1 .. Len(amppos) |-> <<RAdd(amppos[f][1], off[1]), RAdd(amppos[f][2], off[2])>>]

\* np.vstack of a non-empty list of arrays
RECURSIVE VStack(_)
VStack(list) == IF Len(list) = 0 THEN <<>> ELSE list[1] \o VStack(Tail(list))

\* np.where(args.ifuslot == ifuslots)[0]: the 0-based indices, ascending
WhereSlot(slot, table) ==
    LET F[n \in 0 .. Len(table)] ==
            IF n = 0 THEN <<>>
            ELSE IF table[n].ifuslot = slot THEN Append(F[n - 1], n - 1) ELSE F[n - 1]
    IN  F[Len(table)]

\* np.arange(0, len(ifuslots))
Arange(n) == [i \in 1 .. n |-> i - 1]

MaxExposures == 4
RFibers == 2

RDate == 20181108
SlotsOfTables == {<<47>>, <<52, 47>>, <<47, 47>>}
AmpOfRecord == <<"LL", "LU">>

\* the k-th calibration record, of nf fibers; the second record has a master
\* bias and its last fiber's trace leaves the frame
CalRecord(slot, k, nf) ==
    [ifuslot |-> slot, amp |-> AmpOfRecord[k],
     ifupos |-> [f \in 1 .. nf |-> <<Rat(3 * f, 2), R(k - f)>>],
     wavelength |-> [f \in 1 .. nf |-> [c \in 1 .. SCols |-> R(WaveStart - 2 + f + 3 * (c - 1))]],
     trace |-> [f \in 1 .. nf |-> [c \in 1 .. SCols |->
                  IF k = 2 /\ f = nf THEN Rat(2 * SRows - 1, 2) ELSE Rat(f - 1, 2)]],
     masterbias |-> IF k = 1 THEN NoVal ELSE R(1)]

\* the frame base_reduction returns for a twilight / science file
TwiFrame(n) == [r \in 1 .. SRows |-> [c \in 1 .. SCols |-> R(2 * n * (r + c) + 2)]]
SciFrame(n) == [r \in 1 .. SRows |-> [c \in 1 .. SCols |-> R(n * r + 3 * c)]]

\* twilight files on disk, by date: on the date, the day before, two days
\* before, or nowhere
TwiStores ==
    {[d \in {RDate} |-> <<TwiFrame(1), TwiFrame(2)>>],
     [d \in {PrevDay(RDate)} |-> <<TwiFrame(1)>>],
     [d \in {PrevDay(PrevDay(RDate))} |-> <<TwiFrame(1)>>]}

\* (--ifuslot, --observation): no filter, a filter that matches, one that does
\* not, and the default observation (None)
ArgsChoices == {<<NoVal, <<7>>>>, <<<<47>>, <<7>>>>, <<<<99>>, <<7>>>>, <<<<47>>, NoVal>>}

ReduceInit ==
    /\ \E a \in ArgsChoices :
          args = [ifuslot |-> a[1], observation |-> a[2], date |-> RDate,
                  rootdir |-> "/work/03946/hetdex/maverick"]
    /\ \E slots \in SlotsOfTables, nf \in 1 .. RFibers :
          h5table = [k \in 1 .. Len(slots) |-> CalRecord(slots[k], k, nf)]
    /\ \E store \in TwiStores : twiFiles = [k \in 1 .. Len(h5table) |-> store]
    /\ \E counts \in [1 .. Len(h5table) -> 0 .. MaxExposures] :
          sciFiles = [k \in 1 .. Len(h5table) |->
                         [j \in 1 .. counts[k] |-> SciFrame(1 + (j % 2))]]
    /\ ifuloop = <<>>
    /\ r_i = 0
    /\ r_j = 0
    /\ r_p = <<>> /\ r_t = <<>> /\ r_s = <<>>
    /\ masterflt = NoVal
    /\ masterbias = NoVal
    /\ filenames = <<>>
    /\ r_ret = NoVal
    /\ m_pc = "select"

\* lines 255-259
MainSelect ==
    /\ m_pc = "select"
    /\ ifuloop' = IF args.ifuslot # NoVal THEN WhereSlot(args.ifuslot[1], h5table)
                  ELSE Arange(Len(h5table))
    /\ m_pc' = "log"
    /\ UNCHANGED <<args, h5table, twiFiles, sciFiles, r_i, r_j, r_p, r_t, r_s, masterflt,
                   masterbias, filenames, r_ret>>
    /\ UNCHANGED not_reduce

\* line 261, then the call of line 262 and line 184; '%03d' % None raises
MainLog ==
    /\ m_pc = "log"
    /\ m_pc' = IF args.ifuslot = NoVal THEN "TypeError_line261" ELSE "record"
    /\ UNCHANGED <<args, h5table, twiFiles, sciFiles, ifuloop, r_i, r_j, r_p, r_t, r_s,
                   masterflt, masterbias, filenames, r_ret>>
    /\ UNCHANGED not_reduce

\* lines 185-208 for the next index of ifuloop
ReduceRecord ==
    /\ m_pc = "record"
    /\ r_i < Len(ifuloop)
    /\ LET rec == h5table[ifuloop[r_i + 1] + 1]
           mb == IF rec.masterbias = NoVal THEN R(0) ELSE rec.masterbias
           store == twiFiles[ifuloop[r_i + 1] + 1]
           twibase == get_cal_path(build_path(args.rootdir, args.date, "*", rec.ifuslot,
                                              rec.amp, "twi"),
                                   args.date, DOMAIN store)
           files == IF twibase[1].date \in DOMAIN store THEN store[twibase[1].date]
                    ELSE <<>>
       IN  /\ masterbias' = mb
           /\ IF Len(files) = 0
              THEN \* np.median(..., axis=(1, 2)) of an empty stack raises
                   /\ m_pc' = "AxisError"
                   /\ UNCHANGED <<masterflt, filenames>>
              ELSE /\ masterflt' = get_mastertwi(files, mb)
                   /\ IF args.observation = NoVal
                      THEN \* build_path: '%07d' % None raises
                           /\ m_pc' = "TypeError_line64"
                           /\ UNCHANGED filenames
                      ELSE /\ filenames' = sciFiles[ifuloop[r_i + 1] + 1]
                           /\ m_pc' = "exposure"
    /\ r_j' = 0
    /\ UNCHANGED <<args, h5table, twiFiles, sciFiles, ifuloop, r_i, r_p, r_t, r_s, r_ret>>
    /\ UNCHANGED not_reduce

\* dither_pattern[j] of a numpy array with Len rows
DitherInRange(j) == j < Len(dither_pattern)

\* lines 209-215 for exposure j
ReduceExposure ==
    /\ m_pc = "exposure"
    /\ r_j < Len(filenames)
    /\ LET rec == h5table[ifuloop[r_i + 1] + 1]
           sciimage == SubScalar(filenames[r_j + 1], masterbias)
           ts == get_spectra(sciimage, masterflt, rec.trace, rec.wavelength)
       IN  IF DitherInRange(r_j)
           THEN /\ r_p' = Append(r_p, AddOffset(rec.ifupos, dither_pattern[r_j + 1]))
                /\ r_t' = Append(r_t, ts[1])
                /\ r_s' = Append(r_s, ts[2])
                /\ r_j' = r_j + 1
                /\ m_pc' = m_pc
           ELSE /\ m_pc' = "IndexError"
                /\ UNCHANGED <<r_p, r_t, r_s, r_j>>
    /\ UNCHANGED <<args, h5table, twiFiles, sciFiles, ifuloop, r_i, masterflt,
                   masterbias, filenames, r_ret>>
    /\ UNCHANGED not_reduce

\* the exposures of the record are done: the next pass of `for ind in ifuloop`
ReduceNextRecord ==
    /\ m_pc = "exposure"
    /\ r_j = Len(filenames)
    /\ r_i' = r_i + 1
    /\ m_pc' = "record"
    /\ UNCHANGED <<args, h5table, twiFiles, sciFiles, ifuloop, r_j, r_p, r_t, r_s, masterflt,
                   masterbias, filenames, r_ret>>
    /\ UNCHANGED not_reduce

\* lines 216-217; np.vstack of an empty list raises ValueError
ReduceReturn ==
    /\ m_pc = "record"
    /\ r_i = Len(ifuloop)
    /\ IF Len(r_p) = 0
       THEN /\ m_pc' = "ValueError"
            /\ UNCHANGED r_ret
       ELSE /\ r_ret' = <<VStack(r_p), VStack(r_t), VStack(r_s)>>
            /\ m_pc' = "returned"
    /\ UNCHANGED <<args, h5table, twiFiles, sciFiles, ifuloop, r_i, r_j, r_p, r_t, r_s,
                   masterflt, masterbias, filenames>>
    /\ UNCHANGED not_reduce

ReduceNext ==
    MainSelect \/ MainLog \/ ReduceRecord \/ ReduceExposure \/ ReduceNextRecord
        \/ ReduceReturn

-----------------------------------------------------------------------------
(* Module level, lines 267-271: background flattening of `image`, the       *)
(* per-row intensities of line 266                                          *)

ChunkRows == 112
BackPercentile == 20

\* np.array_split(ary, n) for n >= 1: the first Len % n sections have one
\* element more than the others
ArraySplit(ary, n) ==
    LET L == Len(ary)
        size(k) == L \div n + (IF k <= L % n THEN 1 ELSE 0)
        start[k \in 1 .. n + 1] == IF k = 1 THEN 1 ELSE start[k - 1] + size(k - 1)
    IN  [k \in 1 .. n |-> SubSeq(ary, start[k], start[k + 1] - 1)]

\* image.shape[0] / 112 (integer division)
SectionCount(L) == L \div ChunkRows

\* np.percentile(q, per) of a non-empty sequence of finite numbers (linear
\* interpolation between the order statistics)
Percentile(q, per) ==
    LET pos == Rat(per * (Len(q) - 1), 100)
        lo == RFloor(pos)
        hi == Min(lo + 1, Len(q) - 1)
        vlo == KthSmallest(q, lo + 1)
        vhi == KthSmallest(q, hi + 1)
    IN  RAdd(vlo, RMul(RSub(pos, R(lo)), RSub(vhi, vlo)))

\* avg * chunk / b
ScaleChunk(a, chunk, b) == [i \in 1 .. Len(chunk) |-> RDiv(RMul(a, chunk[i]), b)]

\* np.hstack of a list of 1-D arrays
RECURSIVE HStack(_)
HStack(list) == IF Len(list) = 0 THEN <<>> ELSE list[1] \o HStack(Tail(list))

MaxFlatRows == 336
FlatSizes == {n \in 1 .. MaxFlatRows : n % ChunkRows \in {0, 1, 76, 111}}
FlatLevels == {0, 10, 20}

\* row i (from 0) has the level of its group of 112 rows, plus a small ramp
FlatImage(n, levels, ramp) ==
    [i \in 1 .. n |-> R(levels[(((i - 1) \div ChunkRows) % 3) + 1] + ramp * ((i - 1) % 3))]

FlatInit ==
    /\ \E n \in FlatSizes, levels \in [1 .. 3 -> FlatLevels], ramp \in {0, 1} :
          f_image = FlatImage(n, levels, ramp)
    /\ back = <<>>
    /\ avg = NoVal
    /\ chunks = <<>>
    /\ newimage = NoVal
    /\ f_pc = "split"

\* np.array_split(image, image.shape[0] / 112) of line 268; 0 sections raise
FlatSplit ==
    /\ f_pc = "split"
    /\ IF SectionCount(Len(f_image)) <= 0
       THEN /\ f_pc' = "ValueError"
            /\ UNCHANGED chunks
       ELSE /\ chunks' = ArraySplit(f_image, SectionCount(Len(f_image)))
            /\ f_pc' = "back"
    /\ UNCHANGED <<f_image, back, avg, newimage>>
    /\ UNCHANGED not_flat

\* one element of the list comprehension of lines 267-268
FlatBack ==
    /\ f_pc = "back"
    /\ Len(back) < Len(chunks)
    /\ back' = Append(back, Percentile(chunks[Len(back) + 1], BackPercentile))
    /\ UNCHANGED <<f_pc, f_image, avg, chunks, newimage>>
    /\ UNCHANGED not_flat

\* line 269 (and the second, equal, split of line 270)
FlatAvg ==
    /\ f_pc = "back"
    /\ Len(back) = Len(chunks)
    /\ avg' = Median(back)
    /\ f_pc' = "scale"
    /\ UNCHANGED <<f_image, back, chunks, newimage>>
    /\ UNCHANGED not_flat

\* line 271
FlatScale ==
    /\ f_pc = "scale"
    /\ newimage' = HStack([k \in 1 .. Len(chunks) |-> ScaleChunk(avg, chunks[k], back[k])])
    /\ f_pc' = "done"
    /\ UNCHANGED <<f_image, back, avg, chunks>>
    /\ UNCHANGED not_flat

FlatNext == FlatSplit \/ FlatBack \/ FlatAvg \/ FlatScale

-----------------------------------------------------------------------------
(* Specifications: one per component, the other components idle *)

CalIdle ==
    /\ cal_pc = "idle" /\ date = 0 /\ datec = 0 /\ daten = 0 /\ pathname = NoVal
    /\ cnt = 0 /\ cal_log = <<>> /\ twiDates = {}

BaseIdle ==
    /\ b_pc = "idle" /\ hdu = NoVal /\ image = <<>> /\ overscan_length = 0
    /\ gain = NoVal /\ rdnoise = NoVal /\ amp = None /\ ampname = None
    /\ b_a = NoVal /\ b_E2 = NoVal

OrientIdle ==
    /\ o_n = 0 /\ o_orig = <<>> /\ o_image = <<>> /\ o_amp = None /\ o_ampname = None

SpectraIdle ==
    /\ s_pc = "idle" /\ array_sci = <<>> /\ array_flt = <<>> /\ array_trace = <<>>
    /\ wave = <<>> /\ fiber = 0 /\ twi_spectrum = <<>> /\ sci_spectrum = <<>>
    /\ s_ret = NoVal

ReduceIdle ==
    /\ m_pc = "idle" /\ args = NoVal /\ h5table = <<>> /\ twiFiles = <<>>
    /\ sciFiles = <<>> /\ ifuloop = <<>> /\ r_i = 0 /\ r_j = 0 /\ r_p = <<>> /\ r_t = <<>>
    /\ r_s = <<>> /\ masterflt = NoVal /\ masterbias = NoVal /\ filenames = <<>>
    /\ r_ret = NoVal

FlatIdle ==
    /\ f_pc = "idle" /\ f_image = <<>> /\ back = <<>> /\ avg = NoVal /\ chunks = <<>>
    /\ newimage = NoVal

InitCal == CalInit /\ BaseIdle /\ OrientIdle /\ SpectraIdle /\ ReduceIdle /\ FlatIdle
SpecCal == InitCal /\ [][CalNext]_vars

InitBase == BaseInit /\ CalIdle /\ OrientIdle /\ SpectraIdle /\ ReduceIdle /\ FlatIdle
SpecBase == InitBase /\ [][BaseNext]_vars

InitOrient == OrientInit /\ CalIdle /\ BaseIdle /\ SpectraIdle /\ ReduceIdle /\ FlatIdle
SpecOrient == InitOrient /\ [][OrientNext]_vars

InitSpectra == SpectraInit /\ CalIdle /\ BaseIdle /\ OrientIdle /\ ReduceIdle /\ FlatIdle
SpecSpectra == InitSpectra /\ [][SpectraNext]_vars

InitReduce == ReduceInit /\ CalIdle /\ BaseIdle /\ OrientIdle /\ SpectraIdle /\ FlatIdle
SpecReduce == InitReduce /\ [][ReduceNext]_vars

InitFlat == FlatInit /\ CalIdle /\ BaseIdle /\ OrientIdle /\ SpectraIdle /\ ReduceIdle
SpecFlat == InitFlat /\ [][FlatNext]_vars

-----------------------------------------------------------------------------
(* Claims about get_cal_path (SpecCal) *)

NoMatchBefore(k) == \A i \in 0 .. k - 1 : DaysBefore(date, i) \notin twiDates

\* C1: if the template matches no file for D, D-1, ..., D-(k-1) and matches
\* one for D-k, k in 1..30, get_cal_path returns the template with D-k
\* substituted, together with the date D-k, after exactly k backward steps.
C1_ResolvesNearestDate ==
    cal_pc = "done" =>
        \A k \in 1 .. 30 :
            (NoMatchBefore(k) /\ DaysBefore(date, k) \in twiDates) =>
                /\ pathname = build_path("/work/03946/hetdex/maverick",
                                         DaysBefore(date, k), "*", "047", "LL", "twi")
                /\ daten = DaysBefore(date, k)
                /\ cnt = k

\* C2: get_cal_path never takes more than 30 backward steps, and when no date
\* of the look-back window matches it ends (it does not raise) having
\* emitted the exhaustion diagnostic and returning a non-matching path.
C2_GivesUpAfter30 ==
    /\ cnt <= 30
    /\ cal_pc \in {"loop", "done"}
    /\ (cal_pc = "done" /\ NoMatchBefore(31)) =>
           /\ cal_log = <<"Could not find cal within 30 days.">>
           /\ GlobCount(pathname, twiDates) = 0

-----------------------------------------------------------------------------
(* Claims about base_reduction (SpecBase) *)

RawWidth == NCols(hdu.data)

\* C3: for every raw frame width w, the frame base_reduction returns has
\* exactly w - 32 * floor(w / 1064) columns.
C3_TrimmedWidth ==
    b_pc = "done" => NCols(b_a) = RawWidth - 32 * (RawWidth \div 1064)

\* C7: base_reduction never fails because of the GAIN or RDNOISE header
\* value: a positive value is used unchanged, a zero, negative or missing one
\* is replaced by 0.85 (gain) or 3.0 (read-noise), and the frame is produced.
C7_GainRdnoiseDefaulted ==
    /\ b_pc # "KeyError"
    /\ b_pc = "done" =>
          /\ gain = IF hdu.header.GAIN # NoVal /\ RLt(R(0), hdu.header.GAIN)
                    THEN hdu.header.GAIN ELSE Rat(85, 100)
          /\ rdnoise = IF hdu.header.RDNOISE # NoVal /\ RLt(R(0), hdu.header.RDNOISE)
                       THEN hdu.header.RDNOISE ELSE R(3)
          /\ b_a # NoVal

-----------------------------------------------------------------------------
(* Claims about orient_image (SpecOrient) *)

\* C8: for every pixel array, amplifier identity and amplifier name, applying
\* orient_image twice with the same identity and name gives back the
\* original array.
C8_OrientSelfInverse == o_n = 2 => o_image = o_orig

C8_Witness ==
    /\ o_n = 2
    /\ o_amp = "LU"
    /\ o_ampname = "UL"
    /\ orient_image(o_orig, o_amp, o_ampname) # o_orig
    /\ NRows(o_orig) = 2 /\ NCols(o_orig) = 2

-----------------------------------------------------------------------------
(* Claims about get_spectra (SpecSpectra) *)

\* the trace of fiber f (1-based) is below 0, or reaches or exceeds the row
\* count of the frame, at some column
TraceLeavesFrame(f) ==
    \E c \in 1 .. Len(array_trace[f]) :
        \/ RLt(array_trace[f][c], R(0))
        \/ RLe(R(NRows(array_flt)), array_trace[f][c])

TraceInsideFrame(f) ==
    \A c \in 1 .. Len(array_trace[f]) :
        /\ RLe(R(0), array_trace[f][c])
        /\ RLe(array_trace[f][c], R(NRows(array_flt) - 1))

AllZero(row) == \A i \in 1 .. Len(row) : row[i] = R(0)

\* C4: a fiber whose trace is below 0 or reaches or exceeds the frame's row
\* count at some column has all-zero twilight and science rows; the other
\* fibers are still extracted; the output keeps one row per fiber of the
\* trace table; no exception propagates.
C4_OutOfRangeFibersZero ==
    /\ s_pc \in {"loop", "done"}
    /\ s_pc = "done" =>
          /\ Len(s_ret[1]) = NRows(array_trace)
          /\ Len(s_ret[2]) = NRows(array_trace)
          /\ \A f \in 1 .. NRows(array_trace) :
                /\ TraceLeavesFrame(f) => AllZero(s_ret[1][f]) /\ AllZero(s_ret[2][f])
                /\ TraceInsideFrame(f) =>
                      /\ s_ret[1][f] = ZeroNonFinite(<<InterpAll(def_wave, wave[f],
                                           TwiAlongTrace(array_flt, array_trace[f]))>>)[1]
                      /\ s_ret[2][f] = [i \in 1 .. NWave |->
                             RDiv(ZeroNonFinite(<<InterpAll(def_wave, wave[f],
                                    SciAlongTrace(array_sci, array_flt, array_trace[f]))>>)[1][i],
                                  R(2))]

C4_Witness ==
    /\ s_pc = "done"
    /\ \E f, g \in 1 .. NRows(array_trace) :
          /\ TraceLeavesFrame(f)
          /\ \E c \in 1 .. Len(array_trace[f]) :
                RLe(R(0), array_trace[f][c]) /\ RLt(array_trace[f][c], R(NRows(array_flt) - 1))
          /\ f < g
          /\ TraceInsideFrame(g)
          /\ ~AllZero(s_ret[2][g])
          /\ ~AllZero(s_ret[1][g])

-----------------------------------------------------------------------------
(* Claims about the module level and reduce_ifuslot (SpecReduce) *)

Range(q) == {q[i] : i \in 1 .. Len(q)}

\* C9: without a slot filter the run reaches reduce_ifuslot with every record
\* of the calibration table selected; with a filter, exactly the records
\* whose slot equals the filter are selected.
C9_SlotSelection ==
    /\ (args.ifuslot = NoVal /\ m_pc \notin {"select", "log"}) =>
          /\ m_pc # "TypeError_line261"
          /\ Range(ifuloop) = {k - 1 : k \in 1 .. Len(h5table)}
    /\ (args.ifuslot # NoVal /\ m_pc # "select") =>
          /\ Range(ifuloop) =
                {k - 1 : k \in {n \in 1 .. Len(h5table) : h5table[n].ifuslot = args.ifuslot[1]}}
          /\ \A i, j \in 1 .. Len(ifuloop) : i < j => ifuloop[i] < ifuloop[j]

\* C10: if a processed record has more than 3 science exposures,
\* reduce_ifuslot fails at exposure index 3 on the 3-entry dither table, and
\* returns no tables, whatever rows it had collected.
C10_FourthExposureFails ==
    /\ r_ret # NoVal => \A k \in Range(ifuloop) : Len(sciFiles[k + 1]) <= 3
    /\ m_pc = "returned" => r_ret # NoVal
    /\ m_pc = "IndexError" => r_j = 3 /\ Len(filenames) > 3 /\ r_ret = NoVal
    /\ r_j <= 3

C10_Witness ==
    /\ m_pc = "IndexError"
    /\ r_i = 1
    /\ Len(r_p) = 5
    /\ Len(sciFiles[ifuloop[1] + 1]) = 2
    /\ r_ret = NoVal

\* the (record, exposure, fiber) of each output row, in the claimed order
RowsOfRecord(ind) ==
    LET nf == Len(h5table[ind + 1].ifupos)
    IN  [n \in 1 .. Len(sciFiles[ind + 1]) * nf |->
            [ind |-> ind, j |-> (n - 1) \div nf, f |-> ((n - 1) % nf) + 1]]

RECURSIVE RowsOfLoop(_)
RowsOfLoop(loop) ==
    IF Len(loop) = 0 THEN <<>> ELSE RowsOfRecord(loop[1]) \o RowsOfLoop(Tail(loop))

ClaimedOffsets ==
    <<<<R(0), R(0)>>, <<Rat(127, 100), Rat(-73, 100)>>, <<Rat(127, 100), Rat(73, 100)>>>>

\* the spectra get_spectra gives for exposure j of record ind
SpectraOf(ind, j) ==
    LET rec == h5table[ind + 1]
        mb == IF rec.masterbias = NoVal THEN R(0) ELSE rec.masterbias
        store == twiFiles[ind + 1]
        found == CHOOSE d \in DOMAIN store : d \in {args.date, PrevDay(args.date)}
    IN  get_spectra(SubScalar(sciFiles[ind + 1][j + 1], mb),
                    get_mastertwi(store[found], mb), rec.trace, rec.wavelength)

\* C5: with at most 3 science exposures per record, the three returned tables
\* have one row per fiber per exposure, ordered by record, then exposure j,
\* then fiber; the position of a row of exposure j is the fiber's nominal
\* position plus offset j of {(0,0), (1.27,-0.73), (1.27,0.73)}; equal
\* exposures of a fiber give equal science spectra.
C5_DitherRows ==
    (m_pc = "returned" /\ \A k \in Range(ifuloop) : Len(sciFiles[k + 1]) <= 3) =>
        \A rows \in {RowsOfLoop(ifuloop)} :
        \A spectra \in {[k \in Range(ifuloop) |->
                            [j \in 1 .. Len(sciFiles[k + 1]) |-> SpectraOf(k, j - 1)]]} :
            /\ Len(r_ret[1]) = Len(rows)
            /\ Len(r_ret[2]) = Len(rows)
            /\ Len(r_ret[3]) = Len(rows)
            /\ \A n \in 1 .. Len(rows) :
                  LET nominal == h5table[rows[n].ind + 1].ifupos[rows[n].f]
                      off == ClaimedOffsets[rows[n].j + 1]
                  IN  /\ r_ret[1][n] = <<RAdd(nominal[1], off[1]), RAdd(nominal[2], off[2])>>
                      /\ r_ret[2][n] = spectra[rows[n].ind][rows[n].j + 1][1][rows[n].f]
                      /\ r_ret[3][n] = spectra[rows[n].ind][rows[n].j + 1][2][rows[n].f]
            /\ \A n1, n2 \in 1 .. Len(rows) :
                  (/\ rows[n1].ind = rows[n2].ind
                   /\ rows[n1].f = rows[n2].f
                   /\ sciFiles[rows[n1].ind + 1][rows[n1].j + 1]
                        = sciFiles[rows[n2].ind + 1][rows[n2].j + 1])
                  => r_ret[3][n1] = r_ret[3][n2]

\* one record of one fiber with 3 exposures, the first and third of the same
\* frame: 3 rows, equal non-zero science spectra in rows 1 and 3, three
\* different positions
C5_Witness ==
    /\ m_pc = "returned"
    /\ Len(ifuloop) = 1
    /\ Len(h5table[ifuloop[1] + 1].ifupos) = 1
    /\ Len(r_ret[1]) = 3
    /\ sciFiles[ifuloop[1] + 1][1] = sciFiles[ifuloop[1] + 1][3]
    /\ sciFiles[ifuloop[1] + 1][1] # sciFiles[ifuloop[1] + 1][2]
    /\ r_ret[3][1] = r_ret[3][3]
    /\ \E i \in 1 .. NWave : r_ret[3][1][i] # R(0)
    /\ r_ret[1][1] # r_ret[1][2] /\ r_ret[1][2] # r_ret[1][3]

\* two records, the second with a skipped fiber and differing exposures
C5_WitnessTwoRecords ==
    /\ m_pc = "returned"
    /\ Len(ifuloop) = 2
    /\ Len(r_ret[1]) = 10

-----------------------------------------------------------------------------
(* Claims about the background flattening (SpecFlat) *)

\* the chunk of exactly 112 rows that holds row i (from 0), as claimed
ClaimedChunk(k) ==
    SubSeq(f_image, 112 * k + 1, Min(112 * k + 112, Len(f_image)))
ClaimedChunkCount == (Len(f_image) + 111) \div 112
ClaimedBack == [k \in 1 .. ClaimedChunkCount |-> Percentile(ClaimedChunk(k - 1), 20)]

ScaledAsClaimed ==
    \A bk \in {ClaimedBack} : \A med \in {Median(bk)} :
        /\ Len(newimage) = Len(f_image)
        /\ \A i \in 1 .. Len(f_image) :
              newimage[i] = RMul(f_image[i], RDiv(med, bk[(i - 1) \div 112 + 1]))

\* C6: for any number of aggregated rows the intensities are partitioned into
\* contiguous chunks of exactly 112 rows, and row i is multiplied by (median
\* of the chunks' 20th-percentile backgrounds) / (20th-percentile background
\* of chunk floor(i / 112)).
C6_BackgroundFlattening ==
    /\ f_pc # "ValueError"
    /\ f_pc \in {"back", "scale", "done"} =>
          \A k \in 1 .. Len(chunks) : Len(chunks[k]) = 112
    /\ f_pc = "done" => ScaledAsClaimed

\* what the code does do: with a positive multiple of 112 rows the chunks
\* are the 112-row groups and the rows are scaled as C6 says
FlatMultipleOf112 ==
    (Len(f_image) % 112 = 0) =>
        /\ f_pc # "ValueError"
        /\ f_pc \in {"back", "scale", "done"} =>
              \A k \in 1 .. Len(chunks) : chunks[k] = ClaimedChunk(k - 1)
        /\ f_pc = "done" => ScaledAsClaimed

\* the spec's example: two uniform chunks with backgrounds 10 and 20 are
\* scaled by 1.5 and 0.75
FlatExample ==
    /\ f_pc = "done"
    /\ f_image = [i \in 1 .. 224 |-> IF i <= 112 THEN R(10) ELSE R(20)]
    /\ newimage = [i \in 1 .. 224 |-> R(15)]

=============================================================================
